---------------------------- MODULE Spec2Model ----------------------------
(***************************************************************************)
(* State-machine model of the screenshot-to-code client.                   *)
(*                                                                         *)
(*   App (src/unnamed/part_000): the React component that owns the app     *)
(*   state, the version history (appHistory / currentVersion) and the      *)
(*   handlers doCreate, doUpdate, doGenerateCode, reset, cancel,           *)
(*   importFromCode and revertToVersion.                                   *)
(*                                                                         *)
(*   AppContainer (src/frontend/src/components/hosted/AppContainer.tsx):   *)
(*   the init effect that posts to /users/create behind the                *)
(*   isInitRequestInProgress flag.                                         *)
(*                                                                         *)
(* Representation.  A string is the sequence of the chunks it was built    *)
(* from: "" is <<>>, a complete code c is <<c>>, prev + token is           *)
(* prev \o token.  Indices into appHistory are the program's 0-based       *)
(* indices; entry i is appHistory[i + 1].  null is Null.                   *)
(*                                                                         *)
(* Every handler runs to its next await in one step (JavaScript runs one   *)
(* task at a time).  The async call of doCreate/doUpdate that is in flight *)
(* is the record gen: its position (pc), the request it built, and the     *)
(* values of the render it closed over, which is what its callbacks read   *)
(* later.  Between its steps every other handler may run.                  *)
(*                                                                         *)
(* Scope.  One generation is in flight at a time: a doCreate or doUpdate   *)
(* that would start a second one while the first has not closed its socket *)
(* is outside the model.  Presentational state that no handler branches on *)
(* (executionConsole, settings, isImportedFromCode) is left out.           *)
(***************************************************************************)
EXTENDS Integers, Sequences, FiniteSets

\* ------------------------------------------------------------------ bounds
\* Entries the version history may grow to.
MaxHist == 3
\* Chunks one generation may stream before its complete code.
MaxTokens == 1
\* Invocations of AppContainer's init.
MaxInits == 3

\* ------------------------------------------------------------ value domains
\* null (currentVersion: number | null, parentIndex: null).
Null == -1
\* What indexing past the end of an array gives.
Undefined == "undefined"

\* Names for the complete codes (a backend's answer, an imported file).
CodeNames == <<"c0", "c1", "c2", "c3", "c4", "c5", "c6", "c7">>
Tokens == {"t1"}
Instructions == {<<>>, <<"i1">>}
ImageLists == {<<>>, <<"img1", "img2">>}
Tiers == {Undefined, "free", "pro"}

VARIABLES
    appState,                   \* AppState: INITIAL | CODING | CODE_READY
    generatedCode,              \* the displayed code
    referenceImages,
    updateInstruction,
    appHistory,                 \* History: the version entries
    currentVersion,             \* index of the shown version, or Null
    shouldIncludeResultImage,
    wsRef,                      \* wsRef.current: "null" or "socket"
    gen,                        \* the doGenerateCode call in flight
    hung,                       \* the main thread is in a loop that never ends
    isInitRequestInProgress,    \* AppContainer's ref
    initCalls,                  \* position of every invocation of init
    subscriberTier              \* the store's subscriberTier

appVars == <<appState, generatedCode, referenceImages, updateInstruction,
             appHistory, currentVersion,
             shouldIncludeResultImage, wsRef, gen, hung>>
containerVars == <<isInitRequestInProgress, initCalls, subscriberTier>>
vars == <<appVars, containerVars>>

\* -------------------------------------------------------------- helpers
\* array[i] of the program: the entry at 0-based index i, Undefined when absent.
At(array, i) == IF i >= 0 /\ i < Len(array) THEN array[i + 1] ELSE Undefined

\* Whether array[i] is an entry (the history holds no falsy entries).
Has(array, i) == i >= 0 /\ i < Len(array)

\* The render a handler closes over, cut to what its callbacks read later:
\* currentVersion and appHistory[currentVersion].code (on cancel),
\* updateInstruction and referenceImages[0] (on set code).
Closure == [currentVersion |-> currentVersion,
            versionCode |-> IF Has(appHistory, currentVersion)
                            THEN At(appHistory, currentVersion).code ELSE <<>>,
            updateInstruction |-> updateInstruction,
            image |-> At(referenceImages, 0)]

NoClosure == [currentVersion |-> Null, versionCode |-> <<>>,
              updateInstruction |-> <<>>, image |-> Undefined]

NoParams == [generationType |-> "none", image |-> Undefined,
             resultImage |-> Undefined, history |-> <<>>]

\* No generation in flight: none was started, or its socket has closed
\* (nothing reads its closure again).
ClosedGen == [pc |-> "closed", generationType |-> "none", params |-> NoParams,
              parentVersion |-> Null, closure |-> NoClosure,
              received |-> <<>>, codeSet |-> FALSE]


\* The code that arrives for the version at index i (from the backend, from
\* the import dialog).  The program copies codes and never compares them, so
\* whatever it does with equal codes it does with distinct ones: the versions
\* of one history get distinct codes.
NewCodes(i) == {<<CodeNames[i + 1]>>}

\* ------------------------------------------------ extractHistoryTree
\* components/history/utils.extractHistoryTree(history, version): walk the
\* parentIndex links from version to the root, putting each entry's strings
\* in front of what was collected (an ai_edit gives its prompt, then its
\* code; a create gives its code).  A missing entry throws.  fuel counts the
\* entries visited: a walk that visits more than the history holds entries
\* is in a parentIndex cycle and never ends.
ItemStrings(item) ==
    IF item.type = "ai_edit" THEN <<item.inputs.prompt, item.code>>
    ELSE <<item.code>>

RECURSIVE HistoryWalk(_, _, _, _)
HistoryWalk(history, currentIndex, flatHistory, fuel) ==
    IF currentIndex = Null THEN [kind |-> "ok", value |-> flatHistory]
    ELSE IF fuel = 0 THEN [kind |-> "loop", value |-> <<>>]
    ELSE IF ~Has(history, currentIndex) THEN [kind |-> "throw", value |-> <<>>]
    ELSE LET item == At(history, currentIndex)
         IN HistoryWalk(history, item.parentIndex,
                        ItemStrings(item) \o flatHistory, fuel - 1)

extractHistoryTree(history, version) ==
    HistoryWalk(history, version, <<>>, Len(history) + 1)

\* ------------------------------------------------------------------ Init
AppInit ==
    /\ appState = "INITIAL"
    /\ generatedCode = <<>>
    /\ referenceImages = <<>>
    /\ updateInstruction = <<>>
    /\ appHistory = <<>>
    /\ currentVersion = Null
    /\ shouldIncludeResultImage = FALSE
    /\ wsRef = "null"
    /\ gen = ClosedGen
    /\ hung = FALSE

ContainerInit ==
    /\ isInitRequestInProgress = FALSE
    /\ initCalls = [i \in 1..MaxInits |-> "idle"]
    /\ subscriberTier = "unset"

Init == AppInit /\ ContainerInit

\* ----------------------------------------------------------- App handlers
\* Mutant: reset forgets setCurrentVersion(null).
ResetKeepsVersion ==
    /\ appState' = "INITIAL"
    /\ generatedCode' = <<>>
    /\ referenceImages' = <<>>
    /\ updateInstruction' = <<>>
    /\ appHistory' = <<>>
    /\ currentVersion' = currentVersion
    /\ shouldIncludeResultImage' = FALSE

\* reset(): every piece of app state back to its initial value.  The socket
\* and the generations in flight are not touched.
ResetState ==
    /\ appState' = "INITIAL"
    /\ generatedCode' = <<>>
    /\ referenceImages' = <<>>
    /\ updateInstruction' = <<>>
    /\ appHistory' = <<>>
    /\ currentVersion' = Null
    /\ shouldIncludeResultImage' = FALSE

\* The Reset button (shown when appState is CODE_READY).
Reset ==
    /\ ~hung
    /\ UNCHANGED containerVars
    /\ appState = "CODE_READY"
    /\ ResetState
    /\ UNCHANGED <<wsRef, gen, hung>>

\* cancelCodeGenerationAndReset as the closure of a render: version is that
\* render's currentVersion, versionCode its appHistory[currentVersion].code.
CancelAndReset(version, versionCode) ==
    IF version = Null
    THEN ResetState
    ELSE /\ generatedCode' = versionCode
         /\ appState' = "CODE_READY"
         /\ UNCHANGED <<referenceImages, updateInstruction, appHistory, currentVersion, shouldIncludeResultImage>>

\* wsRef.current?.close?.(USER_CLOSE_WEB_SOCKET_CODE): an open socket starts
\* closing; a null ref or a socket that is not open is left as it is.
CloseSocket ==
    gen' = IF wsRef # "null" /\ gen.pc = "open"
           THEN [gen EXCEPT !.pc = "closing"]
           ELSE gen

\* The Cancel button (shown when appState is CODING).
CancelCodeGeneration ==
    /\ ~hung
    /\ UNCHANGED containerVars
    /\ appState = "CODING"
    /\ CloseSocket
    /\ CancelAndReset(Closure.currentVersion, Closure.versionCode)
    /\ UNCHANGED <<wsRef, hung>>

\* Whether a generation may be started (see Scope).
NoneInFlight == gen.pc = "closed"

\* A call of doGenerateCode that has not reached generateCode yet.
NewGen(pc, params, parentVersion) ==
    [pc |-> pc, generationType |-> params.generationType, params |-> params,
     parentVersion |-> parentVersion, closure |-> Closure,
     received |-> <<>>, codeSet |-> FALSE]

\* doCreate(images), from ImageUpload / UrlInputSection (shown when appState
\* is INITIAL): reset, keep the images and, when there is one, enter
\* doGenerateCode, which sets CODING and awaits getToken().
CreateParams(images) ==
    [generationType |-> "create", image |-> At(images, 0),
     resultImage |-> Undefined, history |-> <<>>]

DoCreate(images) ==
    /\ ~hung
    /\ UNCHANGED containerVars
    /\ appState = "INITIAL"
    /\ images = <<>> \/ NoneInFlight
    /\ generatedCode' = <<>>
    /\ referenceImages' = images
    /\ updateInstruction' = <<>>
    /\ appHistory' = <<>>
    /\ currentVersion' = Null
    /\ shouldIncludeResultImage' = FALSE
    /\ IF Len(images) > 0
       THEN /\ appState' = "CODING"
            /\ gen' = NewGen("token", CreateParams(images), currentVersion)
       ELSE /\ appState' = "INITIAL"
            /\ gen' = gen
    /\ UNCHANGED <<wsRef, hung>>

\* Mutant: the instruction is put in front of the history.
UpdatedHistoryPrepends(historyTree, instruction) == <<instruction>> \o historyTree

\* const updatedHistory = [...historyTree, updateInstruction]
UpdatedHistory(historyTree, instruction) == Append(historyTree, instruction)

\* Mutant: the parent is the latest version, not the one shown.
ParentIsLatest == Len(appHistory) - 1

\* The parentVersion doUpdate hands to doGenerateCode.
ParentOfUpdate == currentVersion

UpdateParams(historyTree) ==
    [generationType |-> "update", image |-> At(referenceImages, 0),
     resultImage |-> IF shouldIncludeResultImage THEN "png" ELSE Undefined,
     history |-> UpdatedHistory(historyTree, updateInstruction)]

\* Mutant: the early return clears the instruction, as a sent update does.
DoUpdateRejectedClearsInstruction ==
    /\ updateInstruction' = <<>>
    /\ UNCHANGED <<appState, generatedCode, referenceImages, appHistory,
                   currentVersion, shouldIncludeResultImage, wsRef, gen, hung>>

\* doUpdate's early returns: a toast, and nothing else.
DoUpdateRejected ==
    UNCHANGED <<appState, generatedCode, referenceImages, updateInstruction,
                appHistory, currentVersion,
                shouldIncludeResultImage, wsRef, gen, hung>>

\* doUpdate(), from the Update button (shown when appState is CODE_READY), up
\* to its first await: takeScreenshot() when the result image is included,
\* else getToken() inside doGenerateCode, which has set CODING by then.
DoUpdate ==
    /\ ~hung
    /\ UNCHANGED containerVars
    /\ appState = "CODE_READY"
    /\ IF currentVersion = Null
       THEN DoUpdateRejected
       ELSE LET tree == extractHistoryTree(appHistory, currentVersion)
            IN CASE tree.kind = "throw" ->
                      /\ DoUpdateRejected
                 [] tree.kind = "loop" ->
                      /\ hung' = TRUE
                      /\ UNCHANGED <<appState, generatedCode, referenceImages,
                                     updateInstruction, appHistory, currentVersion,
                                     shouldIncludeResultImage, wsRef, gen>>
                 [] tree.kind = "ok" ->
                      /\ NoneInFlight
                      /\ gen' = NewGen(IF shouldIncludeResultImage
                                       THEN "screenshot" ELSE "token",
                                       UpdateParams(tree.value), ParentOfUpdate)
                      /\ appState' = IF shouldIncludeResultImage THEN appState ELSE "CODING"
                      /\ UNCHANGED <<generatedCode, referenceImages, updateInstruction,
                                     appHistory, currentVersion,
                                     shouldIncludeResultImage, wsRef, hung>>

\* doUpdate resumes after await takeScreenshot() and enters doGenerateCode,
\* which sets CODING and awaits getToken().
ScreenshotTaken ==
    /\ ~hung
    /\ UNCHANGED containerVars
    /\ gen.pc = "screenshot"
    /\ gen' = [gen EXCEPT !.pc = "token"]
    /\ appState' = "CODING"
    /\ UNCHANGED <<generatedCode, referenceImages, updateInstruction,
                   appHistory, currentVersion,
                   shouldIncludeResultImage, wsRef, hung>>

\* doGenerateCode resumes after await getToken(): generateCode opens the
\* socket, stores it in wsRef and sends the request (the record keeps the
\* request only until it is sent); control returns to the caller, and
\* doUpdate then clears the displayed code and the instruction.
GetTokenResolved ==
    /\ ~hung
    /\ UNCHANGED containerVars
    /\ gen.pc = "token"
    /\ gen' = [gen EXCEPT !.pc = "open", !.params = NoParams]
    /\ wsRef' = "socket"
    /\ IF gen.generationType = "update"
       THEN /\ generatedCode' = <<>>
            /\ updateInstruction' = <<>>
       ELSE UNCHANGED <<generatedCode, updateInstruction>>
    /\ UNCHANGED <<appState, referenceImages, appHistory,
                   currentVersion, shouldIncludeResultImage, hung>>

\* importFromCode(code, stack), from ImportCodeSection (shown when appState
\* is INITIAL).
ImportFromCode(code) ==
    /\ ~hung
    /\ UNCHANGED containerVars
    /\ appState = "INITIAL"
    /\ generatedCode' = code
    /\ appHistory' = <<[type |-> "code_create", parentIndex |-> Null,
                        code |-> code, inputs |-> [code |-> code]]>>
    /\ currentVersion' = 0
    /\ appState' = "CODE_READY"
    /\ UNCHANGED <<referenceImages, updateInstruction, shouldIncludeResultImage,
                   wsRef, gen, hung>>

\* Mutant: the upper bound is off by one (index > length).
RevertIndexRejectedOffByOne(index) == index < 0 \/ index > Len(appHistory)

\* revertToVersion's guard: the indices it returns on.
RevertIndexRejected(index) ==
    index < 0 \/ index >= Len(appHistory) \/ ~Has(appHistory, index)

\* revertToVersion(index), from HistoryDisplay, which is told to disable
\* reverts while appState is CODING.
RevertToVersion(index) ==
    /\ ~hung
    /\ UNCHANGED containerVars
    /\ appState # "CODING"
    /\ IF RevertIndexRejected(index)
       THEN UNCHANGED <<currentVersion, generatedCode>>
       ELSE /\ currentVersion' = index
            \* appHistory[index].code: reading .code of a missing entry throws
            \* before setGeneratedCode is called.
            /\ generatedCode' = IF Has(appHistory, index)
                                THEN At(appHistory, index).code
                                ELSE generatedCode
    /\ UNCHANGED <<appState, referenceImages, updateInstruction, appHistory, shouldIncludeResultImage, wsRef, gen, hung>>

\* The instruction textarea (shown when appState is CODE_READY).
SetUpdateInstruction(text) ==
    /\ ~hung
    /\ UNCHANGED containerVars
    /\ appState = "CODE_READY"
    /\ text # updateInstruction
    /\ updateInstruction' = text
    /\ UNCHANGED <<appState, generatedCode, referenceImages, appHistory, currentVersion, shouldIncludeResultImage, wsRef,
                   gen, hung>>

\* The "include screenshot" switch (shown when appState is CODE_READY).
SetShouldIncludeResultImage(checked) ==
    /\ ~hung
    /\ UNCHANGED containerVars
    /\ appState = "CODE_READY"
    /\ checked # shouldIncludeResultImage
    /\ shouldIncludeResultImage' = checked
    /\ UNCHANGED <<appState, generatedCode, referenceImages, updateInstruction,
                   appHistory, currentVersion, wsRef, gen, hung>>

\* --------------------------------------------- generateCode's callbacks
\* generateCode(wsRef, params, onChange, onSetCode, onStatusUpdate, onCancel,
\* onComplete) is the socket client: while the socket is open each message
\* from the backend calls onChange (a chunk) or onSetCode (the complete
\* code); the close event calls onCancel when the user closed the socket
\* and onComplete when the backend closed it normally, and calls nothing
\* when it closed on an error.  No message is delivered once close() was
\* called.

\* The close event of the socket.  A ref to a closed socket behaves as a
\* null ref (close() on it does nothing), so it is kept as "null".
SocketClosed ==
    /\ gen' = ClosedGen
    /\ wsRef' = "null"

\* On change: (token) => setGeneratedCode((prev) => prev + token)
OnChange(token) ==
    /\ ~hung
    /\ UNCHANGED containerVars
    /\ gen.pc = "open"
    /\ Len(gen.received) < MaxTokens
    /\ generatedCode' = generatedCode \o <<token>>
    /\ gen' = [gen EXCEPT !.received = @ \o <<token>>]
    /\ UNCHANGED <<appState, referenceImages, updateInstruction, appHistory, currentVersion, shouldIncludeResultImage, wsRef, hung>>

\* The entry a create's code makes: the whole history.
CreatedHistory(code) ==
    <<[type |-> "ai_create", parentIndex |-> Null, code |-> code,
       inputs |-> [image_url |-> gen.closure.image]]>>

\* The entry an update's code appends to the history as it is now.
EditEntry(code) ==
    [type |-> "ai_edit", parentIndex |-> gen.parentVersion, code |-> code,
     inputs |-> [prompt |-> gen.closure.updateInstruction]]

\* On set code.
OnSetCode(code) ==
    /\ ~hung
    /\ UNCHANGED containerVars
    /\ gen.pc = "open"
    /\ generatedCode' = code
    /\ IF gen.generationType = "create"
       THEN /\ appHistory' = CreatedHistory(code)
            /\ currentVersion' = 0
       ELSE IF gen.parentVersion = Null
       THEN UNCHANGED <<appHistory, currentVersion>>
       ELSE /\ Len(appHistory) < MaxHist
            /\ appHistory' = Append(appHistory, EditEntry(code))
            /\ currentVersion' = Len(appHistory') - 1
    /\ gen' = [gen EXCEPT !.codeSet = TRUE]
    /\ UNCHANGED <<appState, referenceImages, updateInstruction, shouldIncludeResultImage, wsRef, hung>>

\* On complete: the backend closed the socket normally.
OnComplete ==
    /\ ~hung
    /\ UNCHANGED containerVars
    /\ gen.pc = "open"
    /\ appState' = "CODE_READY"
    /\ SocketClosed
    /\ UNCHANGED <<generatedCode, referenceImages, updateInstruction,
                   appHistory, currentVersion,
                   shouldIncludeResultImage, hung>>

\* On cancel: the close event of a socket the user closed.  The callback is
\* the cancelCodeGenerationAndReset of the render doGenerateCode was called in.
OnCancel ==
    /\ ~hung
    /\ UNCHANGED containerVars
    /\ gen.pc = "closing"
    /\ CancelAndReset(gen.closure.currentVersion, gen.closure.versionCode)
    /\ SocketClosed
    /\ UNCHANGED hung

\* The socket closes on an error: no callback runs.
SocketFailed ==
    /\ ~hung
    /\ UNCHANGED containerVars
    /\ gen.pc = "open"
    /\ SocketClosed
    /\ UNCHANGED <<appState, generatedCode, referenceImages, updateInstruction,
                   appHistory, currentVersion,
                   shouldIncludeResultImage, hung>>

\* ------------------------------------------------------ AppContainer init
\* Mutant: init does not look at the flag.
InitGuardMissing == FALSE

\* if (isInitRequestInProgress.current) return;
InitGuard == isInitRequestInProgress

\* init() up to its await: return when a request is in progress, else set the
\* flag and send POST /users/create.
InitInvoke(i) ==
    /\ UNCHANGED appVars
    /\ initCalls[i] = "idle"
    /\ IF InitGuard
       THEN /\ initCalls' = [initCalls EXCEPT ![i] = "returned"]
            /\ UNCHANGED isInitRequestInProgress
       ELSE /\ initCalls' = [initCalls EXCEPT ![i] = "awaiting"]
            /\ isInitRequestInProgress' = TRUE
    /\ UNCHANGED subscriberTier

\* init() resumes with the user: store the tier, clear the flag.
InitResponse(i, tier) ==
    /\ UNCHANGED appVars
    /\ initCalls[i] = "awaiting"
    /\ subscriberTier' = IF tier = Undefined THEN "free" ELSE tier
    /\ isInitRequestInProgress' = FALSE
    /\ initCalls' = [initCalls EXCEPT ![i] = "done"]

\* The request rejects: init() ends at its await and the flag stays set.
InitRejected(i) ==
    /\ UNCHANGED appVars
    /\ initCalls[i] = "awaiting"
    /\ initCalls' = [initCalls EXCEPT ![i] = "threw"]
    /\ UNCHANGED <<isInitRequestInProgress, subscriberTier>>

\* ------------------------------------------------------- specifications
Next ==
    \/ \E images \in ImageLists : DoCreate(images)
    \/ DoUpdate
    \/ ScreenshotTaken
    \/ GetTokenResolved
    \/ \E code \in NewCodes(0) : ImportFromCode(code)
    \/ \E index \in -1..MaxHist : RevertToVersion(index)
    \/ \E text \in Instructions : SetUpdateInstruction(text)
    \/ \E checked \in BOOLEAN : SetShouldIncludeResultImage(checked)
    \/ Reset
    \/ CancelCodeGeneration
    \/ \E token \in Tokens : OnChange(token)
    \/ \E code \in NewCodes(IF gen.generationType = "create" THEN 0 ELSE Len(appHistory)) : OnSetCode(code)
    \/ OnComplete
    \/ OnCancel
    \/ SocketFailed

Spec == Init /\ [][Next]_vars

ContainerNext ==
    \/ \E i \in 1..MaxInits : InitInvoke(i)
    \/ \E i \in 1..MaxInits, tier \in Tiers : InitResponse(i, tier)
    \/ \E i \in 1..MaxInits : InitRejected(i)

ContainerSpec == Init /\ [][ContainerNext]_vars

\* ---------------------------------------------------------------- claims

\* C1.  The version history is a tree of edits in every reachable state: it
\* is empty, or entry 0 is the only root (parentIndex null) and every entry
\* i > 0 has a parentIndex p with 0 <= p < i.
HistoryIsTree ==
    \/ appHistory = <<>>
    \/ /\ appHistory[1].parentIndex = Null
       /\ \A i \in 1..(Len(appHistory) - 1) :
              /\ appHistory[i + 1].parentIndex >= 0
              /\ appHistory[i + 1].parentIndex < i

\* The step in which doUpdate starts a generation.
UpdateStarts ==
    /\ gen.pc = "closed"
    /\ gen'.pc \in {"screenshot", "token"}
    /\ gen'.generationType = "update"

\* The generation in flight has not sent its request yet.
RequestPending == gen.pc \in {"screenshot", "token"}

\* C2.  When doUpdate starts a generation, the request it builds (and sends
\* unchanged once getToken resolves) has generationType "update", the first
\* reference image, and as history extractHistoryTree(appHistory,
\* currentVersion) followed by the update instruction as its last element.
UpdateRequestIsPathThenInstruction ==
    [][/\ UpdateStarts =>
            /\ gen'.params.generationType = "update"
            /\ gen'.params.image = At(referenceImages, 0)
            /\ LET sent == gen'.params.history
                   tree == extractHistoryTree(appHistory, currentVersion)
               IN /\ tree.kind = "ok"
                  /\ Len(sent) = Len(tree.value) + 1
                  /\ SubSeq(sent, 1, Len(tree.value)) = tree.value
                  /\ sent[Len(sent)] = updateInstruction
       /\ (RequestPending /\ RequestPending') => gen'.params = gen.params]_vars

\* An update from a version that is itself an edit is waiting to be sent:
\* its history holds the root's code, the edit's prompt and code, and the
\* new instruction.
UpdateRequestWitness ==
    /\ gen.pc = "token"
    /\ gen.generationType = "update"
    /\ Len(gen.params.history) = 4
    /\ gen.params.history[4] = <<"i1">>
    /\ gen.params.image = "img1"

\* The step in which the complete code of an update arrives.
UpdateCodeArrives ==
    /\ gen.generationType = "update"
    /\ \E code \in NewCodes(Len(appHistory)) : OnSetCode(code)

\* C3.  The history branches.  The parent of an update is the version that
\* is current when doUpdate starts it (a reverted-to version included) and
\* stays that while the update is in flight; when the update's code arrives
\* exactly one ai_edit entry with that parent is appended, the entries
\* already there are unchanged, and currentVersion is the new entry's index.
UpdateAppendsChildOfStartVersion ==
    [][/\ UpdateStarts => gen'.parentVersion = currentVersion
       /\ (gen.pc # "closed" /\ gen'.pc # "closed") =>
              gen'.parentVersion = gen.parentVersion
       /\ UpdateCodeArrives =>
              /\ Len(appHistory') = Len(appHistory) + 1
              /\ SubSeq(appHistory', 1, Len(appHistory)) = appHistory
              /\ appHistory'[Len(appHistory')].type = "ai_edit"
              /\ appHistory'[Len(appHistory')].parentIndex = gen.parentVersion
              /\ currentVersion' = Len(appHistory') - 1]_vars

\* Two edits of the same version: the second was made after a revert.
BranchWitness ==
    /\ Len(appHistory) = 3
    /\ appHistory[1].parentIndex = Null
    /\ appHistory[2].type = "ai_edit" /\ appHistory[2].parentIndex = 0
    /\ appHistory[3].type = "ai_edit" /\ appHistory[3].parentIndex = 0
    /\ currentVersion = 2

\* doUpdate is called in a state in which it fails.
UpdateFails ==
    \/ currentVersion = Null
    \/ extractHistoryTree(appHistory, currentVersion).kind = "throw"

\* C4.  A doUpdate that fails (currentVersion is null, or extractHistoryTree
\* throws) starts no generation and leaves appState, appHistory,
\* currentVersion, generatedCode and updateInstruction as they are.
FailedUpdateChangesNothing ==
    [][(DoUpdate /\ UpdateFails) =>
          UNCHANGED <<appState, appHistory, currentVersion, generatedCode,
                      updateInstruction, gen, wsRef>>]_vars

\* The Update button can be pressed with an instruction typed in while the
\* history is one extractHistoryTree throws on.
FailedUpdateWitness ==
    /\ ~hung
    /\ appState = "CODE_READY"
    /\ currentVersion # Null
    /\ extractHistoryTree(appHistory, currentVersion).kind = "throw"
    /\ updateInstruction # <<>>

\* C5.  While a generation streams (its socket is open and its complete
\* code has not arrived), the displayed code is the in-order concatenation
\* of the tokens that generation has received.
StreamedCodeIsTokensReceived ==
    (gen.pc = "open" /\ ~gen.codeSet) => generatedCode = gen.received

\* C7.  Cancelling (the Cancel button, or the on-cancel callback) resets the
\* whole app state when there is no current version, and otherwise shows the
\* current version's code, sets CODE_READY and leaves appHistory and
\* currentVersion as they are.
CancelResetsOrRevertsToCurrent ==
    [][(CancelCodeGeneration \/ OnCancel) =>
          IF currentVersion = Null
          THEN /\ appState' = "INITIAL"
               /\ appHistory' = <<>>
               /\ currentVersion' = Null
               /\ generatedCode' = <<>>
          ELSE /\ generatedCode' = At(appHistory, currentVersion).code
               /\ appState' = "CODE_READY"
               /\ UNCHANGED <<appHistory, currentVersion>>]_vars

\* C8.  currentVersion tracks an entry of the history: it is null exactly
\* when appHistory is empty, and otherwise 0 <= currentVersion < length.
VersionTracksHistory ==
    /\ (currentVersion = Null) <=> (appHistory = <<>>)
    /\ currentVersion # Null =>
          (currentVersion >= 0 /\ currentVersion < Len(appHistory))

\* A three-version history whose middle version is the one shown.
VersionTracksWitness ==
    /\ Len(appHistory) = 3
    /\ currentVersion = 1
    /\ appState = "CODE_READY"

\* C9.  revertToVersion(index) changes nothing when index < 0 or index >=
\* length; with a valid index it sets currentVersion to index and
\* generatedCode to appHistory[index].code and leaves appHistory and
\* appState as they are.
RevertSelectsValidVersionOnly ==
    [][\A index \in -1..MaxHist :
          RevertToVersion(index) =>
              IF index < 0 \/ index >= Len(appHistory)
              THEN UNCHANGED <<currentVersion, generatedCode, appHistory, appState>>
              ELSE /\ currentVersion' = index
                   /\ generatedCode' = appHistory[index + 1].code
                   /\ UNCHANGED <<appHistory, appState>>]_vars

\* An older version is shown after two edits: only a revert selects it.
RevertWitness ==
    /\ Len(appHistory) >= 2
    /\ currentVersion # Null
    /\ currentVersion < Len(appHistory) - 1
    /\ generatedCode = At(appHistory, currentVersion).code

\* The requests to /users/create in progress.
RequestsInProgress == {i \in 1..MaxInits : initCalls[i] = "awaiting"}

\* C6.  At most one /users/create request is in progress at any time, and
\* an init invoked while the flag is set returns without sending one.
AtMostOneCreateRequest ==
    /\ [](Cardinality(RequestsInProgress) <= 1)
    /\ [][\A i \in 1..MaxInits :
             (isInitRequestInProgress /\ initCalls[i] = "idle"
                 /\ initCalls'[i] # "idle") => initCalls'[i] = "returned"]_vars

\* One init is waiting for its response and another has returned early.
CreateRequestWitness ==
    \E i, j \in 1..MaxInits :
        initCalls[i] = "awaiting" /\ initCalls[j] = "returned"

==========================================================================
